---------------------------- MODULE Spec2Model ----------------------------
(***************************************************************************)
(* Model of main.py: the SOTA activation map generator.                    *)
(*                                                                         *)
(* Units.  Latitudes and longitudes are integers in tenths of a degree     *)
(* (46.0 degrees is 460), so that the 0.1 degree padding is 1.  Global     *)
(* pixel coordinates are integers in units of 1/SubPx pixel: with          *)
(* SubPx = 225 the longitude formula (lon + 180) / 360 * 256 * 2^zoom is   *)
(* exact, (lon + 1800) * 16 * 2^zoom.  The Mercator ordinate needs sin and *)
(* ln; it is tabulated at zoom 12 for the latitudes the model uses.        *)
(***************************************************************************)
EXTENDS Integers, Sequences, FiniteSets, TLC

(***************************************************************************)
(* Program constants                                                       *)
(***************************************************************************)
TARGET_WIDTH == 1200
TARGET_HEIGHT == 800
MAX_ZOOM == 12
MIN_ZOOM == 4
TILE_SIZE == 256
MARKER_RADIUS == 4
\* padding = 0.1 degree, in tenths of a degree
padding == 1
\* sub-pixel units per pixel: 3600 tenths of a degree / 16
SubPx == 225
\* the width of the world in tenths of a degree (360.0) and its half (180.0)
Deg360 == 3600
Deg180 == 1800
\* mercantile's latitude clamp 85.051129, in microdegrees
LatLimit == 85051129
MicroPerTenth == 100000

(***************************************************************************)
(* Bounds of the model                                                     *)
(***************************************************************************)
\* the longest list of points the geometry specification draws
MaxLen == 2

Pow2(n) == 2 ^ n

\* subpixel width of the world at MAX_ZOOM: 256 * 2^12 * 225
World12 == TILE_SIZE * Pow2(MAX_ZOOM) * SubPx

Min2(a, b) == IF a <= b THEN a ELSE b
Max2(a, b) == IF a >= b THEN a ELSE b

\* min() and max() of a non-empty sequence
SeqMin(s) == CHOOSE m \in { s[k] : k \in 1..Len(s) } :
                \A k \in 1..Len(s) : m <= s[k]

SeqMax(s) == CHOOSE m \in { s[k] : k \in 1..Len(s) } :
                \A k \in 1..Len(s) : m >= s[k]

\* Python's int(): truncation toward zero of num / den, den > 0
IntTrunc(num, den) == IF num >= 0 THEN num \div den ELSE -((-num) \div den)

\* Python's int() of a value that lies strictly between num / den and
\* (num + 1) / den: num is the floor of a numerator that is no integer
IntTruncFloored(num, den) ==
    IF num >= 0 THEN num \div den ELSE -((-num - 1) \div den)

(***************************************************************************)
(* (0.5 - ln((1 + sin(lat)) / (1 - sin(lat))) / (4 pi)) * 256 * 2^12,      *)
(* floored to 1/225 pixel, for lat in tenths of a degree.                  *)
(***************************************************************************)
MercatorY(lat) ==
    CASE lat = -601 -> 167546999
      [] lat = -600 -> 167415728
      [] lat = -599 -> 167284854
      [] lat = -1 -> 118030336
      [] lat = 0 -> 117964800
      [] lat = 1 -> 117899263
      [] lat = 459 -> 84028991
      [] lat = 460 -> 83934733
      [] lat = 461 -> 83840305
      [] lat = 462 -> 83745705
      [] lat = 464 -> 83555988
      [] lat = 465 -> 83460869
      [] lat = 466 -> 83365574
      [] lat = 599 -> 68644745
      [] lat = 600 -> 68513871
      [] lat = 601 -> 68382600
      [] lat = 859 -> -7073086
      [] lat = 860 -> -8001051
      [] lat = 861 -> -8952472

\* whether the table's entry is the ordinate itself and not its floor: at
\* the equator alone, where the ordinate is 0.5 * 256 * 2^12
MercatorExact(lat) == lat = 0

\* the same ordinate at siny = 0.9999 and siny = -0.9999 (the clamp), floored
YClampNorth == -67969082
YClampSouth == 303898681

\* lonlat_to_pixels: global pixel coordinates <<x, y>>, in 1/SubPx pixel.
\* x is exact; y is exact at the equator and elsewhere the floor of the
\* ordinate, which lies strictly between y and y + 1.
lonlat_to_pixels(lon, lat, zoom) ==
    LET scale == TILE_SIZE * Pow2(zoom)
        y12 == Min2(Max2(MercatorY(lat), YClampNorth), YClampSouth)
        x == (lon + Deg180) * ((scale * SubPx) \div Deg360)
        y == y12 \div ((TILE_SIZE * Pow2(MAX_ZOOM)) \div scale)
    IN  <<x, y>>

\* the pixel bounding box of the points at a zoom: <<width, height>>
PixelBox(pts, zoom) ==
    LET xs == [k \in 1..Len(pts) |-> lonlat_to_pixels(pts[k][2], pts[k][1], zoom)[1]]
        ys == [k \in 1..Len(pts) |-> lonlat_to_pixels(pts[k][2], pts[k][1], zoom)[2]]
    IN  <<SeqMax(xs) - SeqMin(xs), SeqMax(ys) - SeqMin(ys)>>

\* faulty variant: the height is not tested
ZoomFitsWidthOnly(pts, zoom) ==
    PixelBox(pts, zoom)[1] <= TARGET_WIDTH * SubPx

\* line 91: width <= TARGET_WIDTH and height <= TARGET_HEIGHT
ZoomFits(pts, zoom) ==
    /\ PixelBox(pts, zoom)[1] <= TARGET_WIDTH * SubPx
    /\ PixelBox(pts, zoom)[2] <= TARGET_HEIGHT * SubPx

\* the loop of choose_zoom, from a candidate zoom downwards
RECURSIVE ZoomLoop(_, _)
ZoomLoop(pts, zoom) ==
    IF zoom < MIN_ZOOM THEN MIN_ZOOM
    ELSE IF ZoomFits(pts, zoom) THEN zoom
    ELSE ZoomLoop(pts, zoom - 1)

\* faulty variant: the candidates are tried in ascending order
RECURSIVE ZoomLoopUp(_, _)
ZoomLoopUp(pts, zoom) ==
    IF zoom > MAX_ZOOM THEN MIN_ZOOM
    ELSE IF ZoomFits(pts, zoom) THEN zoom
    ELSE ZoomLoopUp(pts, zoom + 1)

choose_zoom_ascending(pts) == ZoomLoopUp(pts, MIN_ZOOM)

choose_zoom(pts) == ZoomLoop(pts, MAX_ZOOM)

(***************************************************************************)
(* mercantile, as called at lines 124-130.                                 *)
(***************************************************************************)
\* _xy's ordinate for a latitude in microdegrees, which is either the clamp
\* value (+-85.051129) or a multiple of a tenth of a degree
MercatorYMicro(lat) ==
    IF lat = LatLimit THEN -2
    ELSE IF lat = -LatLimit THEN World12 + 1
    ELSE MercatorY(lat \div MicroPerTenth)

MercatorExactMicro(lat) ==
    /\ lat # LatLimit
    /\ lat # -LatLimit
    /\ MercatorExact(lat \div MicroPerTenth)

\* mercantile.tile(lng - eps * LL_EPSILON, lat + eps * LL_EPSILON, zoom):
\* lng in tenths of a degree, lat in microdegrees, eps 0 or 1.  LL_EPSILON
\* (1e-11 degree) is smaller than any distance of the grid, so it is one
\* unit of the exact numerators, and leaves the floor of a numerator that is
\* no integer as it is.
tile(lng, lat, zoom, eps) ==
    LET Z2 == Pow2(zoom)
        xnum == (lng + Deg180) * Z2 - eps
        ynum == IF MercatorExactMicro(lat) THEN MercatorYMicro(lat) - eps
                ELSE MercatorYMicro(lat)
        xtile == IF xnum <= 0 THEN 0
                 ELSE IF xnum >= Deg360 * Z2 THEN Z2 - 1
                 ELSE xnum \div Deg360
        ytile == IF ynum <= 0 THEN 0
                 ELSE IF ynum >= World12 THEN Z2 - 1
                 ELSE ynum \div (World12 \div Z2)
    IN  [x |-> xtile, y |-> ytile, z |-> zoom]

\* for i in range(ul.x, lr.x + 1): for j in range(ul.y, lr.y + 1): Tile(i, j, z)
TileRange(lo_x, hi_x, lo_y, hi_y, zoom) ==
    IF hi_x < lo_x \/ hi_y < lo_y THEN <<>>
    ELSE LET rows == hi_y - lo_y + 1
         IN  [k \in 1..((hi_x - lo_x + 1) * rows) |->
                [x |-> lo_x + ((k - 1) \div rows),
                 y |-> lo_y + ((k - 1) % rows),
                 z |-> zoom]]

\* the tiles of one bounding box, its bounds clamped
TilesOfBox(w0, s0, e0, n0, zoom) ==
    LET w == Max2(-Deg180, w0)
        s == Max2(-LatLimit, s0 * MicroPerTenth)
        e == Min2(Deg180, e0)
        n == Min2(LatLimit, n0 * MicroPerTenth)
        ul_tile == tile(w, n, zoom, 0)
        lr_tile == tile(e, s, zoom, 1)
    IN  TileRange(ul_tile.x, lr_tile.x, ul_tile.y, lr_tile.y, zoom)

\* mercantile.tiles(west, south, east, north, zoom), in the order it yields
mercantile_tiles(west, south, east, north, zoom) ==
    IF west > east
    THEN TilesOfBox(-Deg180, south, east, north, zoom)
         \o TilesOfBox(west, south, Deg180, north, zoom)
    ELSE TilesOfBox(west, south, east, north, zoom)

(***************************************************************************)
(* sorted()                                                                *)
(***************************************************************************)
\* key=lambda p: (p[0], p[1])
PointLeq(p, q) == p[1] < q[1] \/ (p[1] = q[1] /\ p[2] <= q[2])

\* key=lambda t: (t.y, t.x)
TileLeq(t, u) == t.y < u.y \/ (t.y = u.y /\ t.x <= u.x)

\* sorted() is stable: an element goes after the elements whose key is
\* smaller and after the earlier elements whose key is equal
SortedPoints(s) ==
    LET rank == [k \in 1..Len(s) |->
                    Cardinality({ j \in 1..Len(s) :
                        \/ ~PointLeq(s[k], s[j])
                        \/ (PointLeq(s[j], s[k]) /\ PointLeq(s[k], s[j]) /\ j <= k) })]
    IN  [r \in 1..Len(s) |-> s[CHOOSE k \in 1..Len(s) : rank[k] = r]]

SortedTiles(s) ==
    LET rank == [k \in 1..Len(s) |->
                    Cardinality({ j \in 1..Len(s) :
                        \/ ~TileLeq(s[k], s[j])
                        \/ (TileLeq(s[j], s[k]) /\ TileLeq(s[k], s[j]) /\ j <= k) })]
    IN  [r \in 1..Len(s) |-> s[CHOOSE k \in 1..Len(s) : rank[k] = r]]

\* faulty variant: the points are left in their input order
KeepOrder(pts) == pts

\* line 108
SortPoints(pts) == SortedPoints(pts)

\* lines 153-156
SortTiles(ts) == SortedTiles(ts)

(***************************************************************************)
(* The geometry of output_to_png, lines 97-143 and 167-171                 *)
(***************************************************************************)
\* lines 97-103: the (latitude, longitude) pairs of the records
PointsOf(d) == [k \in 1..Len(d) |-> <<d[k].latitude, d[k].longitude>>]

\* lines 110-130: the padded bounds and the tiles that cover them
RequiredTiles(pts, zoom) ==
    LET lats == [k \in 1..Len(pts) |-> pts[k][1]]
        lons == [k \in 1..Len(pts) |-> pts[k][2]]
        min_lat == SeqMin(lats) - padding
        max_lat == SeqMax(lats) + padding
        min_lon == SeqMin(lons) - padding
        max_lon == SeqMax(lons) + padding
    IN  mercantile_tiles(min_lon, min_lat, max_lon, max_lat, zoom)

\* lines 132-141: the tile range and the canvas size
CanvasBox(ts) ==
    LET xs == [k \in 1..Len(ts) |-> ts[k].x]
        ys == [k \in 1..Len(ts) |-> ts[k].y]
        min_x == SeqMin(xs)
        max_x == SeqMax(xs)
        min_y == SeqMin(ys)
        max_y == SeqMax(ys)
    IN  [min_x |-> min_x, max_x |-> max_x, min_y |-> min_y, max_y |-> max_y,
         width |-> (max_x - min_x + 1) * TILE_SIZE,
         height |-> (max_y - min_y + 1) * TILE_SIZE]

\* lines 168-171: the canvas-local centre <<px, py>> of a point's marker
MarkerCentre(p, zoom, box) ==
    LET g == lonlat_to_pixels(p[2], p[1], zoom)
        dx == g[1] - box.min_x * TILE_SIZE * SubPx
        dy == g[2] - box.min_y * TILE_SIZE * SubPx
    IN  <<IntTrunc(dx, SubPx),
          IF MercatorExact(p[1]) THEN IntTrunc(dy, SubPx)
          ELSE IntTruncFloored(dy, SubPx)>>

\* lines 167-183: the ellipses drawn, in order
Markers(pts, zoom, box) ==
    [k \in 1..Len(pts) |->
        LET c == MarkerCentre(pts[k], zoom, box)
        IN  <<c[1] - MARKER_RADIUS, c[2] - MARKER_RADIUS,
              c[1] + MARKER_RADIUS, c[2] + MARKER_RADIUS>>]

(***************************************************************************)
(* Images.  A tile is modelled by one pixel: an image is its mode, its     *)
(* pixel and, in mode P, its palette.  A PNG file is its colour type, its  *)
(* palette, its pixel data and its text chunks.                            *)
(***************************************************************************)
Black == <<0, 0, 0>>

\* PIL's Image.convert("RGB")
ConvertRGB(im) ==
    CASE im.mode = "RGB" -> [mode |-> "RGB", px |-> im.px, palette |-> <<>>]
      [] im.mode = "P" ->
            [mode |-> "RGB", px |-> im.palette[im.px + 1], palette |-> <<>>]
      [] im.mode = "RGBA" ->
            [mode |-> "RGB", px |-> <<im.px[1], im.px[2], im.px[3]>>,
             palette |-> <<>>]

\* PIL's PNG encoder (Image.save(format="PNG")): lossless, the colour type
\* follows the mode
PngEncode(im) ==
    [ihdr |-> CASE im.mode = "RGB" -> 2
                [] im.mode = "P" -> 3
                [] im.mode = "RGBA" -> 6,
     plte |-> im.palette, idat |-> im.px, text |-> <<>>]

\* PIL's PNG decoder (Image.open)
PngDecode(file) ==
    [mode |-> CASE file.ihdr = 2 -> "RGB"
                [] file.ihdr = 3 -> "P"
                [] file.ihdr = 6 -> "RGBA",
     px |-> file.idat, palette |-> file.plte]

\* what tile.openstreetmap.org serves at {z}/{x}/{y}.png: the same image for
\* the same index, palette, truecolour or truecolour with alpha
ServerImage(key) ==
    LET v == (key[1] + key[2] + 2 * key[3]) % 2
    IN  CASE (key[2] + key[3]) % 3 = 0 ->
                [mode |-> "RGB", px |-> <<v, 1 - v, 1>>, palette |-> <<>>]
          [] (key[2] + key[3]) % 3 = 1 ->
                [mode |-> "P", px |-> v, palette |-> <<<<1, 0, 1>>, <<0, 1, 0>>>>]
          [] (key[2] + key[3]) % 3 = 2 ->
                [mode |-> "RGBA", px |-> <<1 - v, v, 0, 1>>, palette |-> <<>>]

\* the outcomes of session.get(url, timeout=20)
TileResponses(key) ==
    { [kind |-> "ok", content |-> PngEncode(ServerImage(key))],
      [kind |-> "status", content |-> <<>>],
      [kind |-> "timeout", content |-> <<>>] }

\* faulty variant: a hit re-saves the converted image over the cached file
get_tile_resave(cache_, key, resp) ==
    IF key \in DOMAIN cache_
    THEN LET im == ConvertRGB(PngDecode(cache_[key]))
         IN  [ok |-> TRUE, ret |-> im, net |-> 0, err |-> "none",
              cache |-> [cache_ EXCEPT ![key] = PngEncode(im)]]
    ELSE IF resp.kind = "timeout"
    THEN [ok |-> FALSE, ret |-> <<>>, net |-> 1, err |-> "Timeout", cache |-> cache_]
    ELSE IF resp.kind = "status"
    THEN [ok |-> FALSE, ret |-> <<>>, net |-> 1, err |-> "HTTPError", cache |-> cache_]
    ELSE LET im == PngDecode(resp.content)
         IN  [ok |-> TRUE, ret |-> im, net |-> 1, err |-> "none",
              cache |-> [k \in DOMAIN cache_ \cup {key} |->
                            IF k = key THEN PngEncode(im) ELSE cache_[k]]]

\* get_tile(z, x, y, session) on the tile cache cache_, with the server's
\* answer resp should a request be made: whether it returned, the image
\* returned, the requests issued, the exception, and the cache afterwards
get_tile(cache_, key, resp) ==
    IF key \in DOMAIN cache_
    THEN [ok |-> TRUE, ret |-> ConvertRGB(PngDecode(cache_[key])), net |-> 0,
          err |-> "none", cache |-> cache_]
    ELSE IF resp.kind = "timeout"
    THEN [ok |-> FALSE, ret |-> <<>>, net |-> 1, err |-> "Timeout", cache |-> cache_]
    ELSE IF resp.kind = "status"
    THEN [ok |-> FALSE, ret |-> <<>>, net |-> 1, err |-> "HTTPError", cache |-> cache_]
    ELSE LET im == PngDecode(resp.content)
         IN  [ok |-> TRUE, ret |-> im, net |-> 1, err |-> "none",
              cache |-> [k \in DOMAIN cache_ \cup {key} |->
                            IF k = key THEN PngEncode(im) ELSE cache_[k]]]

\* faulty variant: the tile's raw pixel is copied whatever its mode
PasteRaw(canvas, im, at) == [canvas EXCEPT ![at] = im.px]

\* PIL's Image.paste(im, box) into an RGB canvas: an RGBA image is copied
\* band by band (the alpha band is dropped), any other mode is converted
Paste(canvas, im, at) ==
    IF im.mode = "RGBA"
    THEN [canvas EXCEPT ![at] = <<im.px[1], im.px[2], im.px[3]>>]
    ELSE [canvas EXCEPT ![at] = ConvertRGB(im).px]

\* line 143: Image.new("RGB", (width, height)), a black canvas; one pixel
\* for each tile-sized cell
NewCanvas(box) ==
    [at \in { <<(x - box.min_x) * TILE_SIZE, (y - box.min_y) * TILE_SIZE>> :
                x \in box.min_x..box.max_x, y \in box.min_y..box.max_y } |-> Black]

\* lines 188-198: the saved PNG of the canvas with the markers drawn
SavedPng(canvas, ellipses, box) ==
    [ihdr |-> 2, size |-> <<box.width, box.height>>,
     idat |-> [cells |-> canvas, ellipses |-> ellipses], text |-> <<>>]

(***************************************************************************)
(* Configuration and the activation list                                   *)
(***************************************************************************)
Unset == "<unset>"

\* faulty variant: the emptiness of the list is not tested
NoPointsUnchecked(pts) == FALSE

\* line 105: if not points
NoPoints(pts) == pts = <<>>

\* faulty variant: a missing GITHUB_REPOSITORY_OWNER reads as the empty string
get_callsign_default(e) ==
    IF e.CALLSIGN # Unset /\ e.CALLSIGN # ""
    THEN [ok |-> TRUE, value |-> e.CALLSIGN]
    ELSE IF e.GITHUB_REPOSITORY_OWNER = Unset
    THEN [ok |-> TRUE, value |-> ""]
    ELSE [ok |-> TRUE, value |-> e.GITHUB_REPOSITORY_OWNER]

\* get_callsign(): os.getenv gives None for an unset variable, os.environ[]
\* raises KeyError for one
get_callsign(e) ==
    IF e.CALLSIGN # Unset /\ e.CALLSIGN # ""
    THEN [ok |-> TRUE, value |-> e.CALLSIGN]
    ELSE IF e.GITHUB_REPOSITORY_OWNER = Unset
    THEN [ok |-> FALSE, value |-> "KeyError"]
    ELSE [ok |-> TRUE, value |-> e.GITHUB_REPOSITORY_OWNER]

Environments ==
    [CALLSIGN : {Unset, "", "hb9xyz"},
     GITHUB_REPOSITORY_OWNER : {Unset, "LaszloAshin"}]

NoEnv == [CALLSIGN |-> Unset, GITHUB_REPOSITORY_OWNER |-> Unset]

Activation(lat, lon) == [latitude |-> lat, longitude |-> lon]

\* the activation lists the API answers with, and the lists output_to_png is
\* called with: none, one summit, and two summits in either order
ApiLists ==
    { <<>>,
      <<Activation(460, 70)>>,
      <<Activation(460, 70), Activation(465, 75)>>,
      <<Activation(465, 75), Activation(460, 70)>> }

\* the body of a non-success answer, a JSON object instead of a list:
\* iterating over it yields its keys, which are strings
ErrorObject == <<[key |-> "message"]>>

\* a["summit"]["coordinates"] can be read
IsActivation(a) == DOMAIN a = {"latitude", "longitude"}

\* the outcomes of requests.get(url, timeout=30).json()
ApiOutcomes ==
    { [kind |-> "timeout", json |-> <<>>],
      [kind |-> "not-json", json |-> <<>>],
      [kind |-> "json", json |-> ErrorObject] }
    \cup { [kind |-> "json", json |-> d] : d \in ApiLists }

\* the keys get_tile is called with directly
TileKeys == { <<10, 531, 361>>, <<10, 532, 361>> }

KeyOf(t) == <<t.z, t.x, t.y>>

\* the records of a list as a bag: the list up to its order
InputBag(d) ==
    [r \in { d[k] : k \in 1..Len(d) } |-> Cardinality({ k \in 1..Len(d) : d[k] = r })]

VARIABLES
    entry,      \* the function called from outside: "idle", "main", "output_to_png"
    pc,         \* the position in it
    env,        \* the process environment of a run of main
    data,       \* the activation list (or the error object)
    points,     \* output_to_png: the sorted points
    ZOOM,       \* output_to_png: the zoom chosen
    tiles,      \* output_to_png: the sorted tiles
    i,          \* output_to_png: the index of the next tile of the loop
    img,        \* output_to_png: the canvas
    cache,      \* tile_cache/: key -> PNG file
    written,    \* the output files this call has written
    png,        \* the content of the PNG file this call has written
    err,        \* the exception that ended the call
    netApi,     \* requests to the activation API issued by this call
    netTile,    \* requests to the tile server issued by this call
    tileCalls,  \* calls of get_tile made by this call
    calls,      \* the last two direct calls of get_tile in a row
    rendered    \* input bag -> the first render of it, and how it went

vars == <<entry, pc, env, data, points, ZOOM, tiles, i, img, cache, written,
          png, err, netApi, netTile, tileCalls, calls, rendered>>

EmptyFun == [x \in {} |-> x]

Init ==
    /\ entry = "idle"
    /\ pc = "idle"
    /\ env = NoEnv
    /\ data = <<>>
    /\ points = <<>>
    /\ ZOOM = 0
    /\ tiles = <<>>
    /\ i = 0
    /\ img = EmptyFun
    /\ cache = EmptyFun
    /\ written = {}
    /\ png = <<>>
    /\ err = "none"
    /\ netApi = 0
    /\ netTile = 0
    /\ tileCalls = 0
    /\ calls = <<>>
    /\ rendered = EmptyFun

Fail(e) ==
    /\ pc' = "failed"
    /\ err' = e

\* main() is started in some environment
Main ==
    /\ entry = "idle"
    /\ \E e \in Environments : env' = e
    /\ entry' = "main"
    /\ pc' = "fetch"
    /\ calls' = <<>>
    /\ UNCHANGED <<data, points, ZOOM, tiles, i, img, cache, written, png, err,
                   netApi, netTile, tileCalls, rendered>>

\* fetch_sota_activations(): the URL is formatted (get_callsign) before the
\* request is made; the status of the answer is not looked at
FetchSotaActivations ==
    /\ entry = "main"
    /\ pc = "fetch"
    /\ LET callsign == get_callsign(env)
       IN  IF ~callsign.ok
           THEN Fail(callsign.value) /\ UNCHANGED <<netApi, data>>
           ELSE /\ netApi' = netApi + 1
                /\ \E r \in ApiOutcomes :
                      CASE r.kind = "timeout" -> Fail("Timeout") /\ UNCHANGED data
                        [] r.kind = "not-json" ->
                              Fail("JSONDecodeError") /\ UNCHANGED data
                        [] r.kind = "json" ->
                              data' = r.json /\ pc' = "html" /\ UNCHANGED err
    /\ UNCHANGED <<entry, env, points, ZOOM, tiles, i, img, cache, written, png,
                   netTile, tileCalls, calls, rendered>>

\* output_to_html(data, "sota.html"): the centre of the map is computed
\* first, the file is saved last
OutputToHtml ==
    /\ entry = "main"
    /\ pc = "html"
    /\ IF \E k \in 1..Len(data) : ~IsActivation(data[k])
       THEN Fail("TypeError") /\ UNCHANGED written
       ELSE IF Len(data) = 0
       THEN Fail("ZeroDivisionError") /\ UNCHANGED written
       ELSE /\ written' = written \cup {"sota.html"}
            /\ pc' = "png"
            /\ UNCHANGED err
    /\ UNCHANGED <<entry, env, data, points, ZOOM, tiles, i, img, cache, png,
                   netApi, netTile, tileCalls, calls, rendered>>

\* output_to_png is called directly
CallOutputToPng ==
    /\ entry = "idle"
    /\ \E d \in ApiLists : data' = d
    /\ entry' = "output_to_png"
    /\ pc' = "png"
    /\ calls' = <<>>
    /\ UNCHANGED <<env, points, ZOOM, tiles, i, img, cache, written, png, err,
                   netApi, netTile, tileCalls, rendered>>

\* output_to_png, lines 97-156: the points, the zoom, the tiles, the canvas
OutputToPngBegin ==
    /\ entry \in {"main", "output_to_png"}
    /\ pc = "png"
    /\ LET pts == PointsOf(data)
       IN  IF NoPoints(pts)
           THEN Fail("RuntimeError") /\ UNCHANGED <<points, ZOOM, tiles, i, img>>
           ELSE IF Len(pts) = 0
           THEN \* line 115: min() of an empty list
                Fail("ValueError") /\ UNCHANGED <<points, ZOOM, tiles, i, img>>
           ELSE LET sorted == SortPoints(pts)
                    zoom == choose_zoom(sorted)
                    ts == RequiredTiles(sorted, zoom)
                IN  /\ points' = sorted
                    /\ ZOOM' = zoom
                    /\ tiles' = SortTiles(ts)
                    /\ img' = NewCanvas(CanvasBox(ts))
                    /\ i' = 1
                    /\ pc' = "tiles"
                    /\ UNCHANGED err
    /\ UNCHANGED <<entry, env, data, cache, written, png, netApi, netTile,
                   tileCalls, calls, rendered>>

\* one turn of the loop of lines 158-162: get_tile and paste
FetchTile ==
    /\ pc = "tiles"
    /\ i <= Len(tiles)
    /\ LET t == tiles[i]
           box == CanvasBox(tiles)
       IN  \E resp \in TileResponses(KeyOf(t)) :
              LET r == get_tile(cache, KeyOf(t), resp)
                  px == (t.x - box.min_x) * TILE_SIZE
                  py == (t.y - box.min_y) * TILE_SIZE
              IN  /\ cache' = r.cache
                  /\ netTile' = netTile + r.net
                  /\ tileCalls' = tileCalls + 1
                  /\ IF r.ok
                     THEN /\ img' = Paste(img, r.ret, <<px, py>>)
                          /\ i' = i + 1
                          /\ UNCHANGED <<pc, err>>
                     ELSE Fail(r.err) /\ UNCHANGED <<img, i>>
    /\ UNCHANGED <<entry, env, data, points, ZOOM, tiles, written, png, netApi,
                   calls, rendered>>

\* what a render found in the tile cache, by the requests it had to make
CacheWas(requests, lookups) ==
    IF requests = lookups THEN "cold"
    ELSE IF requests = 0 THEN "warm"
    ELSE "partly filled"

\* lines 167-199: the markers are drawn and the PNG is saved
SavePng ==
    /\ pc = "tiles"
    /\ i > Len(tiles)
    /\ LET box == CanvasBox(tiles)
           file == SavedPng(img, Markers(points, ZOOM, box), box)
           bag == InputBag(data)
       IN  /\ png' = file
           /\ rendered' =
                 IF bag \in DOMAIN rendered THEN rendered
                 ELSE [b \in DOMAIN rendered \cup {bag} |->
                          IF b = bag
                          THEN [png |-> file, data |-> data,
                                from |-> CacheWas(netTile, tileCalls)]
                          ELSE rendered[b]]
    /\ written' = written \cup {"sota.png"}
    /\ pc' = "done"
    /\ UNCHANGED <<entry, env, data, points, ZOOM, tiles, i, img, cache, err,
                   netApi, netTile, tileCalls, calls>>

\* the call has ended, by returning or by its exception
Return ==
    /\ pc \in {"done", "failed"}
    /\ entry' = "idle"
    /\ pc' = "idle"
    /\ env' = NoEnv
    /\ data' = <<>>
    /\ points' = <<>>
    /\ ZOOM' = 0
    /\ tiles' = <<>>
    /\ i' = 0
    /\ img' = EmptyFun
    /\ written' = {}
    /\ png' = <<>>
    /\ err' = "none"
    /\ netApi' = 0
    /\ netTile' = 0
    /\ tileCalls' = 0
    /\ UNCHANGED <<cache, calls, rendered>>

\* get_tile is called directly
CallGetTile ==
    /\ entry = "idle"
    /\ \E key \in TileKeys : \E resp \in TileResponses(key) :
          LET r == get_tile(cache, key, resp)
              call == [key |-> key, ok |-> r.ok, net |-> r.net, ret |-> r.ret]
          IN  /\ cache' = r.cache
              /\ calls' = IF Len(calls) < 2 THEN Append(calls, call)
                          ELSE <<calls[2], call>>
    /\ UNCHANGED <<entry, pc, env, data, points, ZOOM, tiles, i, img, written,
                   png, err, netApi, netTile, tileCalls, rendered>>

Next ==
    \/ Main
    \/ FetchSotaActivations
    \/ OutputToHtml
    \/ CallOutputToPng
    \/ OutputToPngBegin
    \/ FetchTile
    \/ SavePng
    \/ Return
    \/ CallGetTile

Spec == Init /\ [][Next]_vars

(***************************************************************************)
(* The geometry on its own: one call of output_to_png, from an empty tile  *)
(* cache, with any list of at most MaxLen of these summits.                *)
(***************************************************************************)
GeomPoints ==
    { Activation(460, 70), Activation(465, 75), Activation(461, 72),
      Activation(0, 0), Activation(0, 1800), Activation(600, -600),
      Activation(-600, 600), Activation(860, 0) }

GeomLists == UNION { [1..n -> GeomPoints] : n \in 0..MaxLen }

InitGeom ==
    /\ entry = "output_to_png"
    /\ pc = "png"
    /\ env = NoEnv
    /\ data \in GeomLists
    /\ points = <<>>
    /\ ZOOM = 0
    /\ tiles = <<>>
    /\ i = 0
    /\ img = EmptyFun
    /\ cache = EmptyFun
    /\ written = {}
    /\ png = <<>>
    /\ err = "none"
    /\ netApi = 0
    /\ netTile = 0
    /\ tileCalls = 0
    /\ calls = <<>>
    /\ rendered = EmptyFun

NextGeom ==
    \/ OutputToPngBegin
    \/ FetchTile
    \/ SavePng

SpecGeom == InitGeom /\ [][NextGeom]_vars

(***************************************************************************)
(* Properties                                                              *)
(***************************************************************************)
SummitA == Activation(460, 70)
SummitB == Activation(465, 75)

\* C1: when get_tile is called twice in a row with the same key and the
\* first call returns, the second call returns too, the two calls issue at
\* most one request together, the second none, and the second call returns
\* the image the first returned: the same pixel data in the same mode.
C1_SecondCallSameImage ==
    (/\ Len(calls) = 2
     /\ calls[1].key = calls[2].key
     /\ calls[1].ok)
    => /\ calls[2].ok
       /\ calls[2].net = 0
       /\ calls[1].net + calls[2].net <= 1
       /\ calls[2].ret = calls[1].ret

\* C2: a run of main that has failed on a request (the activation list's or
\* a tile's) has written no output file.
C2_NoOutputOnFailure ==
    (/\ entry = "main"
     /\ pc = "failed"
     /\ err \in {"Timeout", "JSONDecodeError", "HTTPError"})
    => written = {}

\* C3: a render that has ended has written the PNG that the first render of
\* the same records wrote, whatever the order of the records and whatever
\* the tile cache held when it began.
C3_RenderDeterministic ==
    pc = "done" =>
        /\ InputBag(data) \in DOMAIN rendered
        /\ png = rendered[InputBag(data)].png

\* a render from a warm cache has ended whose records came in another order
\* than in the first render of them, which began with a partly filled cache
C3_Witness ==
    /\ pc = "done"
    /\ InputBag(data) \in DOMAIN rendered
    /\ rendered[InputBag(data)].data # data
    /\ rendered[InputBag(data)].from = "partly filled"
    /\ CacheWas(netTile, tileCalls) = "warm"

\* C4: output_to_png called with an empty list fails at once with the
\* RuntimeError of line 106: in that step no get_tile call and no request
\* is made, the tile cache is left as it was and no PNG is written.
C4_EmptyFailsBeforeTiles ==
    [][(entry = "output_to_png" /\ pc = "png" /\ data = <<>>)
        => /\ pc' = "failed"
           /\ err' = "RuntimeError"
           /\ cache' = cache
           /\ tileCalls' = 0
           /\ netTile' = 0
           /\ netApi' = 0
           /\ written' = {}
           /\ png' = <<>>]_vars

\* output_to_png has failed on an empty list while the cache held tiles
C4_Witness ==
    /\ entry = "output_to_png"
    /\ data = <<>>
    /\ pc = "failed"
    /\ cache # EmptyFun

\* C5: a run of main whose fetched list is empty (the run has failed, and
\* not on its configuration or on the fetch) has failed with the
\* RuntimeError raised for empty data.
C5_EmptyListRaisesEmptyDataError ==
    (/\ entry = "main"
     /\ pc = "failed"
     /\ data = <<>>
     /\ err \notin {"KeyError", "Timeout", "JSONDecodeError"})
    => err = "RuntimeError"

\* C6: a run of main with CALLSIGN unset or empty and GITHUB_REPOSITORY_OWNER
\* unset issues no request: it stops with KeyError before the first one.
C6_ConfigErrorBeforeNetwork ==
    (/\ entry = "main"
     /\ env.CALLSIGN \in {Unset, ""}
     /\ env.GITHUB_REPOSITORY_OWNER = Unset)
    => /\ netApi = 0
       /\ netTile = 0
       /\ pc \in {"fetch", "failed"}
       /\ pc = "failed" => err = "KeyError"

\* such a run has failed
C6_Witness ==
    /\ entry = "main"
    /\ env.CALLSIGN = ""
    /\ env.GITHUB_REPOSITORY_OWNER = Unset
    /\ pc = "failed"

\* C7: for a non-empty list of points the zoom chosen is in 4..12; if it is
\* above 4 the pixel bounding box fits 1200 x 800 at it and at no higher
\* zoom up to 12; if the box fits at no zoom of 4..12 it is 4; and for a
\* single point it is 12.
C7_ChooseZoom ==
    (pc \in {"tiles", "done"} /\ points # <<>>) =>
        LET BoxFits(z) == /\ PixelBox(points, z)[1] <= TARGET_WIDTH * SubPx
                          /\ PixelBox(points, z)[2] <= TARGET_HEIGHT * SubPx
        IN  /\ ZOOM \in MIN_ZOOM..MAX_ZOOM
            /\ ZOOM > MIN_ZOOM =>
                  /\ BoxFits(ZOOM)
                  /\ \A z \in (ZOOM + 1)..MAX_ZOOM : ~BoxFits(z)
            /\ (\A z \in MIN_ZOOM..MAX_ZOOM : ~BoxFits(z)) => ZOOM = MIN_ZOOM
            /\ Len(points) = 1 => ZOOM = MAX_ZOOM

\* a zoom strictly between the bounds has been chosen for two points
C7_Witness ==
    /\ pc = "done"
    /\ Len(points) = 2
    /\ ZOOM > MIN_ZOOM
    /\ ZOOM < MAX_ZOOM

\* C8, as claimed: for the two activations at (46.0, 7.0) and (46.5, 7.5)
\* the render uses zoom 12.
C8_SelectsZoom12 ==
    (/\ pc \in {"tiles", "done"}
     /\ InputBag(data) = InputBag(<<SummitA, SummitB>>))
    => ZOOM = 12

\* C8, amended: for the two activations at (46.0, 7.0) and (46.5, 7.5) the
\* render uses zoom 10.
C8_SelectsZoom10 ==
    (/\ pc \in {"tiles", "done"}
     /\ InputBag(data) = InputBag(<<SummitA, SummitB>>))
    => ZOOM = 10

\* a run of main has rendered these two activations
C8_Witness ==
    /\ entry = "main"
    /\ pc = "done"
    /\ data = <<SummitA, SummitB>>

\* C9: in a render that has ended, every point with latitude in (-90, 90)
\* and longitude in [-180, 180] is projected into the pixel footprint of one
\* of the tiles, and its marker's centre is inside the canvas.
C9_MarkersInsideCanvas ==
    pc = "done" =>
        \A k \in 1..Len(points) :
            LET lat == points[k][1]
                lon == points[k][2]
                box == CanvasBox(tiles)
                g == lonlat_to_pixels(lon, lat, ZOOM)
                c == MarkerCentre(points[k], ZOOM, box)
                side == TILE_SIZE * SubPx
            IN  (lat > -900 /\ lat < 900 /\ lon >= -Deg180 /\ lon <= Deg180) =>
                    /\ \E n \in 1..Len(tiles) :
                          /\ tiles[n].x * side <= g[1]
                          /\ g[1] < (tiles[n].x + 1) * side
                          /\ tiles[n].y * side <= g[2]
                          /\ g[2] < (tiles[n].y + 1) * side
                    /\ 0 <= c[1] /\ c[1] < box.width
                    /\ 0 <= c[2] /\ c[2] < box.height

\* C10: no step changes or removes an entry of the tile cache.
C10_CacheAppendOnly ==
    [][\A k \in DOMAIN cache : k \in DOMAIN cache' /\ cache'[k] = cache[k]]_vars

\* a render has failed on a tile request after it had found tiles in the
\* cache and had added others to it
C10_Witness ==
    /\ pc = "failed"
    /\ err \in {"HTTPError", "Timeout"}
    /\ tileCalls - netTile > 0
    /\ netTile > 1

====
